---- MODULE Spec2Model ----
(***************************************************************************)
(* Audiline Admin (src/admin.py): a two-button Streamlit page.             *)
(*   "1. Analyze Article"           asks the text model for                *)
(*       "headline | script", parses the reply and keeps the pair in the   *)
(*       session state.                                                    *)
(*   "2. Generate Audio & Publish"  synthesises the script to a temporary  *)
(*       mp3, uploads it to the news-audio bucket and inserts one row into *)
(*       the articles table.                                               *)
(* Text is modelled as a sequence of one-character strings so that split,  *)
(* replace, strip and join are computed the way Python computes them.      *)
(***************************************************************************)
EXTENDS Integers, Sequences, FiniteSets, TLC

\* ------------------------------------------------------------------ bounds
\* longest model reply enumerated by the parser harness
MaxLen == 6
\* number of user actions (button clicks) in one session
MaxActions == 3
\* last second of the wall clock
MaxTime == 1

\* ------------------------------------------------------------------- text
\* the characters replies are built from: a letter, the emphasis marker,
\* the delimiter and two of the characters str.strip() treats as whitespace
Char == {"a", "*", "|", " ", "\n"}

Whitespace == {" ", "\n"}

StringsUpTo(n) == UNION {[1..k -> Char] : k \in 0..n}

\* str.lstrip()
RECURSIVE LStrip(_)
LStrip(s) ==
    IF s = <<>> THEN s
    ELSE IF Head(s) \in Whitespace THEN LStrip(Tail(s)) ELSE s

\* str.rstrip()
RECURSIVE RStrip(_)
RStrip(s) ==
    IF s = <<>> THEN s
    ELSE IF s[Len(s)] \in Whitespace THEN RStrip(SubSeq(s, 1, Len(s) - 1)) ELSE s

\* str.strip()
Strip(s) == RStrip(LStrip(s))

\* sep in s
Contains(s, sep) == \E i \in 1..Len(s) : s[i] = sep

\* s.find(sep) + 1 (0 when absent)
RECURSIVE FindFrom(_, _, _)
FindFrom(s, sep, i) ==
    IF i > Len(s) THEN 0
    ELSE IF s[i] = sep THEN i ELSE FindFrom(s, sep, i + 1)

Find(s, sep) == FindFrom(s, sep, 1)

\* s.rfind(sep) + 1
RECURSIVE RFindFrom(_, _, _)
RFindFrom(s, sep, i) ==
    IF i < 1 THEN 0
    ELSE IF s[i] = sep THEN i ELSE RFindFrom(s, sep, i - 1)

\* s.rsplit(sep, 1): cuts at the LAST separator
SplitLast(s, sep) ==
    LET i == RFindFrom(s, sep, Len(s)) IN
    IF i = 0 THEN <<s>>
    ELSE <<SubSeq(s, 1, i - 1), SubSeq(s, i + 1, Len(s))>>

\* s.split(sep, 1): at most one cut, at the first separator
SplitFirst(s, sep) ==
    LET i == Find(s, sep) IN
    IF i = 0 THEN <<s>>
    ELSE <<SubSeq(s, 1, i - 1), SubSeq(s, i + 1, Len(s))>>

\* s.split(sep): cut at every separator; "" gives [""]
RECURSIVE Split(_, _)
Split(s, sep) ==
    LET i == Find(s, sep) IN
    IF i = 0 THEN <<s>>
    ELSE <<SubSeq(s, 1, i - 1)>> \o Split(SubSeq(s, i + 1, Len(s)), sep)

\* sep.join(parts)
RECURSIVE Join(_, _)
Join(parts, sep) ==
    IF parts = <<>> THEN <<>>
    ELSE IF Len(parts) = 1 THEN parts[1]
    ELSE parts[1] \o sep \o Join(Tail(parts), sep)

\* s.replace("*", "")
RemoveStars(s) == SelectSeq(s, LAMBDA c : c # "*")

\* s.strip().replace("*", ""): trims before the markers are removed
StripThenRemove(s) == RemoveStars(Strip(s))

\* s.replace("*", "").strip()
Clean(s) == Strip(RemoveStars(s))

\* result.split("\n") without the "if line.strip()" filter
AllLines(result) == Split(result, "\n")

\* [line for line in result.split("\n") if line.strip()]
NonEmptyLines(result) ==
    SelectSeq(Split(result, "\n"), LAMBDA line : Strip(line) # <<>>)

\* number of leading non-whitespace characters
RECURSIVE WordLen(_)
WordLen(s) ==
    IF s = <<>> THEN 0
    ELSE IF Head(s) \in Whitespace THEN 0 ELSE 1 + WordLen(Tail(s))

\* len(s.split())
RECURSIVE WordCount(_)
WordCount(s) ==
    LET t == LStrip(s) IN
    IF t = <<>> THEN 0
    ELSE 1 + WordCount(SubSeq(t, WordLen(t) + 1, Len(t)))

\* ------------------------------------------------------------- normalizer
\* the PARSING LOGIC block applied to result = response.text.strip()
Normalize(result) ==
    IF Contains(result, "|")
    THEN LET parts == SplitFirst(result, "|") IN
         [kind |-> "delimiter",
          headline |-> Clean(parts[1]),
          script |-> Clean(parts[2])]
    ELSE LET lines == NonEmptyLines(result) IN
         IF Len(lines) >= 2
         THEN [kind |-> "fallback",
               headline |-> Clean(lines[1]),
               script |-> Clean(Join(Tail(lines), <<" ">>))]
         ELSE [kind |-> "fail", headline |-> <<>>, script |-> <<>>]

\* ------------------------------------------------------------------ state
VARIABLES
    pc,            \* "idle", or the position inside a running publish action
    now,           \* int(time.time())
    nActions,      \* button clicks handled so far
    lastAction,    \* "none", "analyze" or "publish": the click being/last handled
    prev,          \* the pair held in the session when that click arrived
    response,      \* response.text of the text model (the reply being parsed)
    hasHeadline,   \* 'headline' in st.session_state
    headline,      \* st.session_state['headline']
    script,        \* st.session_state['script']
    msg,           \* the st.error / st.success shown by the click
    calls,         \* collaborator calls made by the click, in order
    form,          \* final_headline, final_script and the metadata widgets
    tempFilename,  \* temp_filename of the publish action
    disk,          \* files in the working directory
    storage,       \* objects in Supabase storage
    uploads,       \* which click uploaded which object
    records,       \* rows of the articles table, in insertion order
    insertedBy     \* which click inserted each row

vars == <<pc, now, nActions, lastAction, prev, response, hasHeadline, headline,
          script, msg, calls, form, tempFilename, disk, storage, uploads,
          records, insertedBy>>

sessionVars == <<hasHeadline, headline, script>>

publishVars == <<form, tempFilename, disk, storage, uploads, records, insertedBy>>

\* text literals
SUPABASE_URL == "https://project.supabase.co"

Bucket == "news-audio"

NoText == <<>>

NoMsg == [kind |-> "none", text |-> NoText]

NoForm == [final_headline |-> NoText, final_script |-> NoText,
           bucket_tag |-> "Money & Markets", is_breaking |-> FALSE, is_crisis |-> FALSE]

NoFile == <<"news_", -1, ".mp3">>

Held == [has |-> hasHeadline, headline |-> headline, script |-> script]

\* a pair left in the session by an earlier analyze of "a|a a"
EarlierPair == [has |-> TRUE, headline |-> <<"a">>, script |-> <<"a", " ", "a">>]

NothingHeld == [has |-> FALSE, headline |-> NoText, script |-> NoText]

Call(name, ok) == [name |-> name, ok |-> ok]

Init ==
    /\ pc = "idle"
    /\ now = 0
    /\ nActions = 0
    /\ lastAction = "none"
    /\ prev = NothingHeld
    /\ response = NoText
    /\ hasHeadline = FALSE
    /\ headline = NoText
    /\ script = NoText
    /\ msg = NoMsg
    /\ calls = <<>>
    /\ form = NoForm
    /\ tempFilename = NoFile
    /\ disk = {}
    /\ storage = {}
    /\ uploads = {}
    /\ records = <<>>
    /\ insertedBy = <<>>

\* ---------------------------------------------------------------- analyze
\* what every click on "1. Analyze Article" does before the branch is known
BeginAnalyze ==
    /\ pc = "idle"
    /\ pc' = "idle"
    /\ nActions' = nActions + 1
    /\ lastAction' = "analyze"
    /\ prev' = Held
    /\ UNCHANGED <<now, publishVars>>

\* if not raw_text: st.error("Please paste some text first.")
AnalyzeNoText ==
    /\ BeginAnalyze
    /\ calls' = <<>>
    /\ msg' = [kind |-> "no_text", text |-> NoText]
    /\ UNCHANGED <<response, sessionVars>>

\* the except branch, with the session entries popped as well
GeminiErrorDiscards ==
    /\ msg' = [kind |-> "gemini_error", text |-> NoText]
    /\ hasHeadline' = FALSE
    /\ headline' = NoText
    /\ script' = NoText

\* except Exception as e: st.error(f"Gemini API Error: {e}")
GeminiError ==
    /\ msg' = [kind |-> "gemini_error", text |-> NoText]
    /\ UNCHANGED sessionVars

\* model.generate_content(prompt) (or response.text) raises
AnalyzeGeminiError ==
    /\ BeginAnalyze
    /\ calls' = <<Call("generate", FALSE)>>
    /\ GeminiError
    /\ UNCHANGED response

\* the else branch, with the unparsed text kept as the headline
ParseFailureKeepsText(result) ==
    /\ msg' = [kind |-> "parse_error", text |-> result]
    /\ hasHeadline' = TRUE
    /\ headline' = result
    /\ script' = NoText

\* else: st.error(f"Could not parse output. Raw: {result}")
ParseFailure(result) ==
    /\ msg' = [kind |-> "parse_error", text |-> result]
    /\ UNCHANGED sessionVars

\* the two branches that store st.session_state['headline'] / ['script']
ParseSuccess(n) ==
    /\ hasHeadline' = TRUE
    /\ headline' = n.headline
    /\ script' = n.script
    /\ msg' = [kind |-> IF n.kind = "delimiter" THEN "analysis_complete"
                        ELSE "fallback_used",
               text |-> NoText]

\* the model answers resp: result = response.text.strip(), then PARSING LOGIC
AnalyzeReply(resp) ==
    /\ BeginAnalyze
    /\ calls' = <<Call("generate", TRUE)>>
    /\ response' = resp
    /\ LET result == Strip(resp)
           n == Normalize(result)
       IN  IF n.kind = "fail" THEN ParseFailure(result) ELSE ParseSuccess(n)

\* "headline | script" rebuilt from the held pair
Reconstruct(h, s) == h \o <<" ", "|", " ">> \o s

\* ---------------------------------------------------------------- publish
BucketTags == {"Money & Markets", "Technology", "Sports", "World", "India",
               "Entertainment"}

\* n words with single spaces between them
RECURSIVE Sentence(_)
Sentence(n) == IF n = 1 THEN <<"a">> ELSE <<"a", " ">> \o Sentence(n - 1)

\* what the editor may type over the proposed headline and script
EditedHeadlines == {<<"a", " ", "a">>}

EditedScripts == {Sentence(3), Sentence(6)}

\* the settings of the metadata widgets in the runs explored
Selections ==
    {w \in [bucket_tag : BucketTags, is_breaking : BOOLEAN, is_crisis : BOOLEAN] :
        \/ w.bucket_tag = "Money & Markets" /\ ~w.is_breaking /\ ~w.is_crisis
        \/ w.bucket_tag = "World" /\ w.is_breaking /\ w.is_crisis}

\* f"news_{int(time.time())}.mp3"
TempName(t) == <<"news_", t, ".mp3">>

\* f"{SUPABASE_URL}/storage/v1/object/public/news-audio/{temp_filename}"
PublicUrl(filename) ==
    <<SUPABASE_URL, "/storage/v1/object/public/", "news-audio", "/", filename>>

\* word_count // 2
HalfTheWords(word_count) == word_count \div 2

\* int(word_count / 2.5): word_count / 2.5 = 10 * word_count / 25, truncated
\* (word_count is never negative, and the float quotient of these sizes is
\* exact to well within the distance to the next integer)
EstimatedDuration(word_count) == (word_count * 10) \div 25

\* the click on "2. Generate Audio & Publish", offered once a headline is held
PublishClick(fh, fs, tag, breaking, crisis) ==
    /\ pc = "idle"
    /\ hasHeadline
    /\ pc' = "synth"
    /\ nActions' = nActions + 1
    /\ lastAction' = "publish"
    /\ prev' = Held
    /\ calls' = <<>>
    /\ msg' = NoMsg
    /\ form' = [final_headline |-> fh, final_script |-> fs, bucket_tag |-> tag,
                is_breaking |-> breaking, is_crisis |-> crisis]
    /\ tempFilename' = TempName(now)
    /\ UNCHANGED <<now, response, sessionVars, disk, storage, uploads, records,
                   insertedBy>>

SynthOutcomes == {"post_raises", "bad_status", "open_raises", "write_raises", "ok"}

\* the publish step goes on to the upload whatever generate_audio_file returned
AfterSynthesisAlwaysUploads(success) == pc' = "upload"

\* if success: ... (nothing is done, not even the cleanup, otherwise)
AfterSynthesis(success) == pc' = IF success THEN "upload" ELSE "idle"

\* generate_audio_file(final_script, temp_filename)
GenerateAudioFile(outcome) ==
    /\ pc = "synth"
    /\ calls' = Append(calls, Call("synthesis", outcome = "ok"))
    /\ disk' = IF outcome \in {"write_raises", "ok"}
               THEN disk \cup {tempFilename} ELSE disk
    /\ msg' = CASE outcome = "bad_status" -> [kind |-> "deepgram_api_error", text |-> NoText]
                [] outcome = "ok" -> msg
                [] OTHER -> [kind |-> "connection_error", text |-> NoText]
    /\ AfterSynthesis(outcome = "ok")
    /\ UNCHANGED <<now, nActions, lastAction, prev, response, sessionVars, form,
                   tempFilename, storage, uploads, records, insertedBy>>

UploadOutcomes == {"read_raises", "upload_raises", "ok"}

\* the row is inserted even though the upload raised
AfterUploadAlwaysInserts(ok) == pc' = "insert"

\* an exception leaves the try block for except/finally
AfterUpload(ok) == pc' = IF ok THEN "insert" ELSE "cleanup"

\* open(temp_filename, 'rb').read(), then storage.from_("news-audio").upload(...)
Upload(outcome) ==
    /\ pc = "upload"
    /\ (tempFilename \notin disk) => outcome = "read_raises"
    /\ calls' = IF outcome = "read_raises" THEN calls
                ELSE Append(calls, Call("upload", outcome = "ok"))
    /\ storage' = IF outcome = "ok"
                  THEN storage \cup {[bucket |-> Bucket, path |-> tempFilename]}
                  ELSE storage
    /\ uploads' = IF outcome = "ok"
                  THEN uploads \cup {[path |-> tempFilename, by |-> nActions]}
                  ELSE uploads
    /\ msg' = IF outcome = "ok" THEN msg
              ELSE [kind |-> "upload_error", text |-> NoText]
    /\ AfterUpload(outcome = "ok")
    /\ UNCHANGED <<now, nActions, lastAction, prev, response, sessionVars, form,
                   tempFilename, disk, records, insertedBy>>

\* the data dict of the publish step
Row ==
    [headline |-> form.final_headline,
     summary |-> form.final_script,
     category |-> form.bucket_tag,
     audio_url |-> PublicUrl(tempFilename),
     duration_seconds |-> EstimatedDuration(WordCount(form.final_script)),
     is_breaking |-> form.is_breaking,
     is_crisis |-> form.is_crisis]

\* supabase.table("articles").insert(data).execute()
Insert(ok) ==
    /\ pc = "insert"
    /\ calls' = Append(calls, Call("insert", ok))
    /\ records' = IF ok THEN Append(records, Row) ELSE records
    /\ insertedBy' = IF ok THEN Append(insertedBy, nActions) ELSE insertedBy
    /\ msg' = IF ok THEN [kind |-> "published", text |-> NoText]
              ELSE [kind |-> "upload_error", text |-> NoText]
    /\ pc' = "cleanup"
    /\ UNCHANGED <<now, nActions, lastAction, prev, response, sessionVars, form,
                   tempFilename, disk, storage, uploads>>

\* finally: if os.path.exists(temp_filename): os.remove(temp_filename)
Cleanup ==
    /\ pc = "cleanup"
    /\ disk' = disk \ {tempFilename}
    /\ pc' = "idle"
    /\ UNCHANGED <<now, nActions, lastAction, prev, response, sessionVars, msg,
                   calls, form, tempFilename, storage, uploads, records, insertedBy>>

\* a second passes between two clicks (temp_filename is fixed at the click,
\* so time passing inside a publish changes nothing)
Tick ==
    /\ pc = "idle"
    /\ now < MaxTime
    /\ now' = now + 1
    /\ UNCHANGED <<pc, nActions, lastAction, prev, response, sessionVars, msg,
                   calls, publishVars>>

\* ---------------------------------------------------------------- session
\* the replies of the text model in the runs explored: "a|a a", "*a\na", " a"
Replies == {<<"a", "|", "a", " ", "a">>, <<"*", "a", "\n", "a">>, <<" ", "a">>}

ClickAnalyzeNoText == nActions < MaxActions /\ AnalyzeNoText

ClickAnalyzeError == nActions < MaxActions /\ AnalyzeGeminiError

ClickAnalyzeReply == nActions < MaxActions /\ \E resp \in Replies : AnalyzeReply(resp)

ClickPublish ==
    /\ nActions < MaxActions
    /\ \E fh \in {headline} \cup EditedHeadlines, fs \in {script} \cup EditedScripts,
          sel \in Selections :
          PublishClick(fh, fs, sel.bucket_tag, sel.is_breaking, sel.is_crisis)

StepSynthesis == \E outcome \in SynthOutcomes : GenerateAudioFile(outcome)

StepUpload == \E outcome \in UploadOutcomes : Upload(outcome)

StepInsert == \E ok \in BOOLEAN : Insert(ok)

Next ==
    \/ ClickAnalyzeNoText
    \/ ClickAnalyzeError
    \/ ClickAnalyzeReply
    \/ ClickPublish
    \/ StepSynthesis
    \/ StepUpload
    \/ StepInsert
    \/ Cleanup
    \/ Tick

Spec == Init /\ [][Next]_vars

\* ---------------------------------------------------------- parser harness
\* every reply up to MaxLen characters, parsed once and then parsed again
\* from the pair it produced; the session starts empty or with the pair an
\* earlier analyze left, and nActions counts the parses made here
InitNorm ==
    /\ pc = "idle"
    /\ now = 0
    /\ nActions = 0
    /\ lastAction = "none"
    /\ prev = NothingHeld
    /\ response \in StringsUpTo(MaxLen)
    /\ \E held \in {NothingHeld, EarlierPair} :
          /\ hasHeadline = held.has
          /\ headline = held.headline
          /\ script = held.script
    /\ msg = NoMsg
    /\ calls = <<>>
    /\ form = NoForm
    /\ tempFilename = NoFile
    /\ disk = {}
    /\ storage = {}
    /\ uploads = {}
    /\ records = <<>>
    /\ insertedBy = <<>>

NormAnalyze ==
    /\ nActions = 0
    /\ AnalyzeReply(response)

NormReanalyze ==
    /\ nActions = 1
    /\ msg.kind \in {"analysis_complete", "fallback_used"}
    /\ AnalyzeReply(Reconstruct(headline, script))

NextNorm == NormAnalyze \/ NormReanalyze

SpecNorm == InitNorm /\ [][NextNorm]_vars

\* ============================================================ properties
\* vocabulary of the statements below, written from the wording of the
\* specification and not from the parser

NoStar(y) == \A k \in 1..Len(y) : y[k] # "*"

Trimmed(y) == y = <<>> \/ (y[1] \notin Whitespace /\ y[Len(y)] \notin Whitespace)

\* y is x without the whitespace around it
IsTrimOf(y, x) ==
    /\ Trimmed(y)
    /\ \E a \in 0..Len(x) :
          /\ a + Len(y) <= Len(x)
          /\ SubSeq(x, a + 1, a + Len(y)) = y
          /\ \A k \in 1..Len(x) : (k <= a \/ k > a + Len(y)) => x[k] \in Whitespace

\* y is x with every "*" removed and the surrounding whitespace trimmed
IsCleanOf(y, x) == IsTrimOf(y, SelectSeq(x, LAMBDA c : c # "*"))

\* position of the first "|" of x (x contains one)
FirstBar(x) == CHOOSE i \in 1..Len(x) : x[i] = "|" /\ \A j \in 1..(i - 1) : x[j] # "|"

\* a line of x begins after position c
LineStart(x, c) == c = 0 \/ (c \in 1..Len(x) /\ x[c] = "\n")

\* the line of x that begins after position c
LineEnd(x, c) ==
    CHOOSE e \in c..Len(x) :
        /\ \A k \in (c + 1)..e : x[k] # "\n"
        /\ (e = Len(x) \/ x[e + 1] = "\n")

LineFrom(x, c) == SubSeq(x, c + 1, LineEnd(x, c))

\* where the lines with something other than whitespace begin
TextLineStarts(x) ==
    {c \in 0..Len(x) : LineStart(x, c)
                          /\ \E k \in 1..Len(LineFrom(x, c)) :
                                LineFrom(x, c)[k] \notin Whitespace}

\* the k-th such line
TextLine(x, k) ==
    LET c == CHOOSE d \in TextLineStarts(x) :
                 Cardinality({e \in TextLineStarts(x) : e < d}) = k - 1
    IN  LineFrom(x, c)

\* lines 2..n of x with one space between neighbours
SpacedRest(x) ==
    LET n == Cardinality(TextLineStarts(x))
        J[k \in 2..n] == IF k = 2 THEN TextLine(x, 2)
                         ELSE J[k - 1] \o <<" ">> \o TextLine(x, k)
    IN  J[n]

Replied == lastAction = "analyze" /\ calls = <<Call("generate", TRUE)>>

Succeeded == msg.kind \in {"analysis_complete", "fallback_used"}

\* C1: a reply that contains "|" is cut at the first "|" only: the stored
\* headline is the text before it and the stored script all the text after
\* it (later "|" included), each with every "*" removed and trimmed.
C1_SplitsOnFirstDelimiter ==
    (Replied /\ Contains(response, "|")) =>
        LET i == FirstBar(response) IN
        /\ msg.kind = "analysis_complete"
        /\ hasHeadline
        /\ IsCleanOf(headline, SubSeq(response, 1, i - 1))
        /\ IsCleanOf(script, SubSeq(response, i + 1, Len(response)))

\* a reply with a second "|" and an emphasis marker has been parsed
C1_Witness ==
    /\ Replied
    /\ msg.kind = "analysis_complete"
    /\ Cardinality({i \in 1..Len(response) : response[i] = "|"}) >= 2
    /\ Contains(response, "*")
    /\ Contains(script, "|")
    /\ headline # NoText

\* C2: whenever normalization succeeds, by either path, headline and script
\* contain no "*", have no leading or trailing whitespace, and the headline
\* is not empty.
C2_ResultInvariant ==
    (Replied /\ Succeeded) =>
        /\ NoStar(headline) /\ NoStar(script)
        /\ Trimmed(headline) /\ Trimmed(script)
        /\ headline # NoText

\* C3: the line fallback is used only when the reply has no "|"; the
\* whitespace-only lines are dropped, and with two or more lines left the
\* first is the headline and the others, joined with single spaces, the
\* script (both cleaned); with fewer than two nothing is produced.
C3_LineFallback ==
    /\ (lastAction = "analyze" /\ msg.kind = "fallback_used")
          => ~Contains(response, "|")
    /\ (Replied /\ ~Contains(response, "|")) =>
          IF Cardinality(TextLineStarts(response)) >= 2
          THEN /\ msg.kind = "fallback_used"
               /\ hasHeadline
               /\ IsCleanOf(headline, TextLine(response, 1))
               /\ IsCleanOf(script, SpacedRest(response))
          ELSE msg.kind = "parse_error"

\* a reply of three text lines and a whitespace-only line went through the
\* fallback
C3_Witness ==
    /\ Replied
    /\ msg.kind = "fallback_used"
    /\ Cardinality(TextLineStarts(response)) = 3
    /\ Cardinality({c \in 0..Len(response) : LineStart(response, c)}) > 3
    /\ Contains(script, " ")

\* the reply has no "|" and fewer than two lines of text
Unparsable ==
    /\ Replied
    /\ ~Contains(response, "|")
    /\ Cardinality(TextLineStarts(response)) < 2

C5_Idempotent ==
    (Replied /\ prev.has /\ response = prev.headline \o <<" ", "|", " ">> \o prev.script)
        => (Succeeded /\ hasHeadline /\ headline = prev.headline /\ script = prev.script)

\* the pair of a first parse, its script holding a "|", was parsed again
C5_Witness ==
    /\ nActions = 2
    /\ Replied
    /\ Succeeded
    /\ prev.headline # NoText
    /\ Contains(prev.script, "|")
    /\ response = prev.headline \o <<" ", "|", " ">> \o prev.script

PublishFinished == lastAction = "publish" /\ pc = "idle"

\* C6: whenever a publish action has finished, on whichever path (synthesis
\* failed, file write failed, upload failed, insert failed, all succeeded),
\* its temporary file news_<timestamp>.mp3 is no longer on the local disk.
C6_TempFileRemoved == PublishFinished => tempFilename \notin disk

GenerationFailed ==
    \/ lastAction = "analyze" /\ msg.kind = "gemini_error"
    \/ PublishFinished /\ calls = <<Call("synthesis", FALSE)>>

\* C7 as stated: after a click whose text generation or speech synthesis
\* failed, the pair held from an earlier successful analyze is no longer held.
C7_FailureDiscardsHeldPair ==
    (GenerationFailed /\ prev.has) =>
        ~(hasHeadline /\ headline = prev.headline /\ script = prev.script)

\* C7 as the code has it: after such a click the session holds exactly what
\* it held before the click.
C7_FailureKeepsHeldPair == GenerationFailed => Held = prev

\* the text model raised while a parsed pair was held
C7_Witness ==
    /\ lastAction = "analyze"
    /\ msg.kind = "gemini_error"
    /\ prev.has
    /\ hasHeadline
    /\ headline # NoText

CallNames == [k \in 1..Len(calls) |-> calls[k].name]

PublishOrder == <<"synthesis", "upload", "insert">>

\* C8: within one click every collaborator is called at most once; a publish
\* calls synthesis, then upload, then insert, and nothing is called after a
\* step that failed.
C8_NoRetryFailureTerminal ==
    /\ lastAction = "analyze" => (calls = <<>> \/ CallNames = <<"generate">>)
    /\ lastAction = "publish" =>
          /\ Len(calls) <= 3
          /\ CallNames = SubSeq(PublishOrder, 1, Len(calls))
          /\ \A k \in 1..(Len(calls) - 1) : calls[k].ok
          /\ pc = "upload" => calls = <<Call("synthesis", TRUE)>>
          /\ pc = "insert" => calls = <<Call("synthesis", TRUE), Call("upload", TRUE)>>

\* a publish whose upload failed has finished: no insert followed
C8_Witness ==
    /\ PublishFinished
    /\ calls = <<Call("synthesis", TRUE), Call("upload", FALSE)>>

\* number of whitespace-separated tokens: the places where a token begins
TokenStarts(x) ==
    {k \in 1..Len(x) : x[k] \notin Whitespace /\ (k = 1 \/ x[k - 1] \in Whitespace)}

Rows == {records[k] : k \in 1..Len(records)}

\* C9: the duration stored with a record is floor(2 * word_count / 5) for the
\* word_count of its script, and a script with at least as many words never
\* has a smaller duration.
C9_DurationEstimate ==
    /\ \A r \in Rows :
          r.duration_seconds = (2 * Cardinality(TokenStarts(r.summary))) \div 5
    /\ \A r1, r2 \in Rows :
          Cardinality(TokenStarts(r1.summary)) <= Cardinality(TokenStarts(r2.summary))
              => r1.duration_seconds <= r2.duration_seconds

\* two rows are stored, one with twice the words of the other and a larger
\* duration, and one whose word count is not a multiple of 5
C9_Witness ==
    /\ \E r1, r2 \in Rows :
          /\ Cardinality(TokenStarts(r1.summary)) = 3
          /\ Cardinality(TokenStarts(r2.summary)) = 6
          /\ r1.duration_seconds = 1
          /\ r2.duration_seconds = 2

\* C10: every row of the table has an audio_url of the form
\* {base_url}/storage/v1/object/public/news-audio/{path} whose path is an
\* object of the news-audio bucket uploaded by the click that inserted the
\* row; an object may be left without a row.
C10_RowHasUploadedAudio ==
    /\ Len(insertedBy) = Len(records)
    /\ \A k \in 1..Len(records) :
          \E o \in storage :
              /\ o.bucket = "news-audio"
              /\ records[k].audio_url =
                    <<SUPABASE_URL, "/storage/v1/object/public/", o.bucket, "/", o.path>>
              /\ [path |-> o.path, by |-> insertedBy[k]] \in uploads

\* one publish stored a row, another uploaded its audio and failed to insert
C10_Witness ==
    /\ Len(records) = 1
    /\ PublishFinished
    /\ calls = <<Call("synthesis", TRUE), Call("upload", TRUE), Call("insert", FALSE)>>
    /\ \E o \in storage : \A k \in 1..Len(records) :
          records[k].audio_url # PublicUrl(o.path)

====
